---- MODULE Spec2Model ----
(***************************************************************************)
(* KursApp: billing-cycle payment generator (services/storage.ts),         *)
(* the React handlers that call it (App.tsx) and the Express/Prisma        *)
(* endpoints that persist its output (server part of App.tsx).             *)
(*                                                                         *)
(* Dates.  Every date the program handles here is a date-only string       *)
(* (the <input type="date"> value, or toISOString().split('T')[0]) or a    *)
(* Prisma DateTime serialised at UTC midnight.  `new Date(str)` therefore  *)
(* always yields a UTC-midnight instant, modelled as the number of whole   *)
(* days since 1970-01-01.  The local-time setters used by addDays /        *)
(* addMonths / addYears are modelled for a zone whose local calendar date  *)
(* at UTC midnight is the UTC date and that has no DST (Europe/Istanbul,   *)
(* UTC+3, the deployment the UI strings are written for).                  *)
(*                                                                         *)
(* Strings.  A date-only string "YYYY-MM-DD" is the tuple <<y, m, d>>; a   *)
(* full ISO string "YYYY-MM-DDT00:00:00.000Z" is <<y, m, d, "T...Z">>.     *)
(***************************************************************************)
EXTENDS Integers, Sequences, FiniteSets, TLC

\* ------------------------------------------------------------------------
\* Calendar (ECMAScript Date: MakeDay and YearFromTime / MonthFromTime /
\* DateFromTime), proleptic Gregorian, by the closed forms over 400-year eras
\* whose years start on 1 March.  A Date is a day number, 1970-01-01 being 0.
\* ------------------------------------------------------------------------

\* MakeDay for a month in 1..12; the day may lie outside the month and carries
DaysFromCivil(y, m, d) ==
    LET yy  == IF m <= 2 THEN y - 1 ELSE y
        era == yy \div 400
        yoe == yy - era * 400
        mp  == IF m > 2 THEN m - 3 ELSE m + 9
        doy == ((153 * mp + 2) \div 5) + d - 1
        doe == yoe * 365 + (yoe \div 4) - (yoe \div 100) + doy
    IN  era * 146097 + doe - 719468

\* MakeDay: the month may lie outside 1..12 and carries into the year
MakeDate(y, m, d) ==
    DaysFromCivil(y + ((m - 1) \div 12), ((m - 1) % 12) + 1, d)

\* <<year, month, day of month>> of a day number
Civil(date) ==
    LET z   == date + 719468
        era == z \div 146097
        doe == z % 146097
        yoe == (doe - (doe \div 1460) + (doe \div 36524) - (doe \div 146096)) \div 365
        doy == doe - (365 * yoe + (yoe \div 4) - (yoe \div 100))
        mp  == (5 * doy + 2) \div 153
        d   == doy - ((153 * mp + 2) \div 5) + 1
        m   == IF mp < 10 THEN mp + 3 ELSE mp - 9
    IN  <<yoe + era * 400 + (IF m <= 2 THEN 1 ELSE 0), m, d>>

getFullYear(date) == Civil(date)[1]

\* 1..12 (the month number that toISOString prints)
getMonth(date) == Civil(date)[2]

getDate(date) == Civil(date)[3]

\* ------------------------------------------------------------------------
\* Date <-> string conversions
\* ------------------------------------------------------------------------

TimeSuffix == "T00:00:00.000Z"

\* the time value of an Invalid Date; no day number of the model's years
NaN == -1000000

\* a string that new Date() cannot parse (the empty string is another)
Unparseable == <<"unparseable">>

\* new Date(str): accepts "YYYY-MM-DD" and the full ISO form; anything else
\* yields an Invalid Date
ParseDate(str) == IF Len(str) >= 3 THEN MakeDate(str[1], str[2], str[3]) ELSE NaN

\* what toISOString raises on an Invalid Date
RangeError == <<"RangeError: Invalid time value">>

\* Date.prototype.toISOString
toISOString(date) == IF date = NaN THEN RangeError ELSE Civil(date) \o <<TimeSuffix>>

\* the relational operators on two Dates: false when either is Invalid (NaN)
DateLT(a, b) == a # NaN /\ b # NaN /\ a < b

DateLE(a, b) == a # NaN /\ b # NaN /\ a <= b

\* s.split('T')[0]
SplitT0(s) == SubSeq(s, 1, 3)

\* String.prototype.startsWith
startsWith(s, prefix) ==
    Len(prefix) <= Len(s) /\ SubSeq(s, 1, Len(prefix)) = prefix

\* ------------------------------------------------------------------------
\* services/storage.ts: date helpers
\* ------------------------------------------------------------------------

addDays(date, days) ==
    IF date = NaN THEN NaN
    ELSE MakeDate(getFullYear(date), getMonth(date), getDate(date) + days)

addMonths(date, months) ==
    IF date = NaN THEN NaN
    ELSE MakeDate(getFullYear(date), getMonth(date) + months, getDate(date))

addYears(date, years) ==
    IF date = NaN THEN NaN
    ELSE MakeDate(getFullYear(date) + years, getMonth(date), getDate(date))

\* Date.prototype.getTime, in units of one day: every instant is a UTC midnight,
\* and getTime is only used in the ratio of two differences (lines 104-106)
getTime(date) == date

\* ------------------------------------------------------------------------
\* services/storage.ts: generatePaymentsForEnrollment
\* ------------------------------------------------------------------------

\* absent property / null
Undefined == <<>>

\* ------------------------------------------------------------------------
\* Lines 104-107 in IEEE-754 binary64, fee being an integer and
\* 0 < studentDuration < totalDuration:
\*     ratio   = fl(studentDuration / totalDuration)
\*     product = fl(fee * ratio)
\*     amount  = Math.round(product)        (nearest integer, a half goes up)
\* With e the exponent that puts the quotient's significand in [2^52, 2^53),
\* ratio = q + delta / (totalDuration * 2^e), |delta| <= totalDuration / 2.
\* The two rounding errors together stay below 2^-21 for |fee| < 2^31, and
\* fee * q is a multiple of 1 / totalDuration, so amount is the exact
\* half-up rounding n of fee * q unless fee * q is exactly n - 1/2; then
\* product is n - 1/2 or one of its two neighbours, and amount is n - 1
\* exactly when product falls below n - 1/2.
\* ------------------------------------------------------------------------

RECURSIVE Pow2(_)
Pow2(k) == IF k <= 0 THEN 1 ELSE 2 * Pow2(k - 1)

RECURSIVE Pow2Mod(_, _)
\* 2^e modulo m
Pow2Mod(e, m) == IF e = 0 THEN 1 % m ELSE (2 * Pow2Mod(e - 1, m)) % m

RECURSIVE FloorLog2(_)
FloorLog2(x) == IF x < 2 THEN 0 ELSE 1 + FloorLog2(x \div 2)

RECURSIVE QuotientShift(_, _, _)
\* the least j' >= j with num * 2^j' >= den: the quotient lies in [2^-j', 2^(1-j'))
QuotientShift(num, den, j) ==
    IF num * Pow2(j) >= den THEN j ELSE QuotientShift(num, den, j + 1)

\* delta of fl(num / den): significand * den - num * 2^e, round to nearest even
RatioError(num, den, e) ==
    LET r     == (num * Pow2Mod(e, den)) % den
        r2    == (num * Pow2Mod(e, 2 * den)) % (2 * den)
        odd   == r2 - r = den
        up    == 2 * r > den \/ (2 * r = den /\ odd)
    IN  IF r = 0 THEN 0 ELSE IF up THEN den - r ELSE 0 - r

\* fee * q = n - 1/2 exactly: does fl(fee * fl(q)) fall below n - 1/2 ?
ProductBelowHalf(fee, num, den, n) ==
    LET j      == QuotientShift(num, den, 1)
        delta  == RatioError(num, den, 52 + j)
        absFee == IF fee < 0 THEN 0 - fee ELSE fee
        absDel == IF delta < 0 THEN 0 - delta ELSE delta
        h2     == IF 2 * n - 1 < 0 THEN 1 - 2 * n ELSE 2 * n - 1
        k      == FloorLog2(h2) - 1
        \* the spacing of doubles halves just below a power of two
        err    == IF fee > 0 /\ h2 = 1 THEN 4 * absFee * absDel
                  ELSE 2 * absFee * absDel
    IN  /\ fee * delta < 0
        /\ IF j + k >= 0 THEN err > den * Pow2(j + k)
           ELSE err * Pow2(0 - (j + k)) > den

\* variant: the product truncated instead of rounded (Math.floor)
ProratedAmount_Truncated(fee, studentDuration, totalDuration) ==
    (fee * studentDuration) \div totalDuration

\* Math.round(course.fee * ratio) with ratio = studentDuration / totalDuration
ProratedAmount(fee, studentDuration, totalDuration) ==
    LET n   == (2 * fee * studentDuration + totalDuration) \div (2 * totalDuration)
        tie == (2 * fee * studentDuration + totalDuration) % (2 * totalDuration) = 0
    IN  IF tie /\ ProductBelowHalf(fee, studentDuration, totalDuration, n)
        THEN n - 1 ELSE n

\* variant: the helper's result is dropped, nextCycle is cycleStart again
nextCycleOf_SameDay(course, cycleStart) == cycleStart

\* lines 72-75: the boundary after cycleStart
nextCycleOf(course, cycleStart) ==
    IF course.period = "weekly" THEN addDays(cycleStart, 7)
    ELSE IF course.period = "monthly" THEN addMonths(cycleStart, 1)
    ELSE addYears(cycleStart, 1)

RECURSIVE alignCycleStart_StopEarly(_, _, _)
\* variant: the loop breaks as soon as the next boundary reaches joinDate (>=)
alignCycleStart_StopEarly(course, joinDate, cycleStart) ==
    IF DateLE(cycleStart, joinDate)
    THEN LET nextCycle == nextCycleOf(course, cycleStart)
         IN  IF DateLE(joinDate, nextCycle)
             THEN cycleStart
             ELSE alignCycleStart_StopEarly(course, joinDate, nextCycle)
    ELSE cycleStart

\* variant: the alignment loop is missing
alignCycleStart_NoAdvance(course, joinDate, cycleStart) == cycleStart

\* variant: `if` in place of `while`, cycleStart advances at most one period
alignCycleStart_OnlyOnce(course, joinDate, cycleStart) ==
    IF DateLE(cycleStart, joinDate) /\ ~DateLT(joinDate, nextCycleOf(course, cycleStart))
    THEN nextCycleOf(course, cycleStart)
    ELSE cycleStart

RECURSIVE alignCycleStart(_, _, _)
\* lines 71-81: the alignment loop, entered with cycleStart = courseStartDate
alignCycleStart(course, joinDate, cycleStart) ==
    IF DateLE(cycleStart, joinDate)
    THEN LET nextCycle == nextCycleOf(course, cycleStart)
         IN  IF DateLT(joinDate, nextCycle)
             THEN cycleStart
             ELSE alignCycleStart(course, joinDate, nextCycle)
    ELSE cycleStart

\* variant: the loop bound is off by one (i <= periodsToGenerate)
periodsToGenerate_OneMore(course) ==
    IF course.period = "weekly" THEN 53
    ELSE IF course.period = "monthly" THEN 13 ELSE 6

\* line 86
periodsToGenerate(course) ==
    IF course.period = "weekly" THEN 52
    ELSE IF course.period = "monthly" THEN 12 ELSE 5

\* variant: the final else advances by a month
periodEndOf_DefaultMonthly(course, currentPeriodStart) ==
    IF course.period = "weekly" THEN addDays(currentPeriodStart, 7)
    ELSE IF course.period = "yearly" THEN addYears(currentPeriodStart, 1)
    ELSE addMonths(currentPeriodStart, 1)

\* lines 89-92: the end of the period that starts at currentPeriodStart
periodEndOf(course, currentPeriodStart) ==
    IF course.period = "weekly" THEN addDays(currentPeriodStart, 7)
    ELSE IF course.period = "monthly" THEN addMonths(currentPeriodStart, 1)
    ELSE addYears(currentPeriodStart, 1)

\* variant: the charge always starts on the join date
effectiveStartOf_AlwaysJoin(currentPeriodStart, joinDate) == joinDate

\* line 94
effectiveStartOf(currentPeriodStart, joinDate) ==
    IF DateLT(currentPeriodStart, joinDate) THEN joinDate ELSE currentPeriodStart

\* variant: every cycle is pro-rated by the time since joinDate
amountOf_EveryCycle(course, i, joinDate, currentPeriodStart, periodEnd) ==
    IF joinDate # currentPeriodStart
    THEN LET totalDuration == getTime(periodEnd) - getTime(currentPeriodStart)
             studentDuration == getTime(periodEnd) - getTime(joinDate)
         IN  ProratedAmount(course.fee, studentDuration, totalDuration)
    ELSE course.fee

\* variant: a negative charge is raised to zero (Math.max(0, amount))
amountOf_NoNegative(course, i, joinDate, currentPeriodStart, periodEnd) ==
    IF course.fee < 0 THEN 0
    ELSE IF i = 0 /\ DateLT(currentPeriodStart, joinDate)
    THEN LET totalDuration == getTime(periodEnd) - getTime(currentPeriodStart)
             studentDuration == getTime(periodEnd) - getTime(joinDate)
         IN  ProratedAmount(course.fee, studentDuration, totalDuration)
    ELSE course.fee

\* variant: the pro-rated part is added to the fee (amount += ...)
amountOf_AddsProRata(course, i, joinDate, currentPeriodStart, periodEnd) ==
    IF i = 0 /\ DateLT(currentPeriodStart, joinDate)
    THEN LET totalDuration == getTime(periodEnd) - getTime(currentPeriodStart)
             studentDuration == getTime(periodEnd) - getTime(joinDate)
         IN  course.fee + ProratedAmount(course.fee, studentDuration, totalDuration)
    ELSE course.fee

\* lines 101-108
amountOf(course, i, joinDate, currentPeriodStart, periodEnd) ==
    IF i = 0 /\ DateLT(currentPeriodStart, joinDate)
    THEN LET totalDuration == getTime(periodEnd) - getTime(currentPeriodStart)
             studentDuration == getTime(periodEnd) - getTime(joinDate)
         IN  ProratedAmount(course.fee, studentDuration, totalDuration)
    ELSE course.fee

\* variant: periodStart compared with === instead of startsWith
existsIn_ExactString(existingPayments, studentId, course, startDate) ==
    \E k \in 1..Len(existingPayments) :
        /\ existingPayments[k].studentId = studentId
        /\ existingPayments[k].courseId = course.id
        /\ existingPayments[k].periodStart = startDate

\* variant: the courseId comparison is missing
existsIn_AnyCourse(existingPayments, studentId, course, startDate) ==
    \E k \in 1..Len(existingPayments) :
        /\ existingPayments[k].studentId = studentId
        /\ startsWith(existingPayments[k].periodStart, startDate)

\* lines 110-114: existingPayments.some(...), startDate being
\* effectiveStart.toISOString().split('T')[0]
existsIn(existingPayments, studentId, course, startDate) ==
    \E k \in 1..Len(existingPayments) :
        /\ existingPayments[k].studentId = studentId
        /\ existingPayments[k].courseId = course.id
        /\ startsWith(existingPayments[k].periodStart, startDate)

\* variant: the duplicate check looks for the nominal currentPeriodStart
LoopIteration_NominalKey(studentId, course, joinDate, existingPayments, i, currentPeriodStart) ==
    LET periodEnd == periodEndOf(course, currentPeriodStart)
        effectiveStart == effectiveStartOf(currentPeriodStart, joinDate)
        skipped == DateLE(periodEnd, effectiveStart)
        threw == ~skipped /\ effectiveStart = NaN
    IN  [i |-> i,
         currentPeriodStart |-> currentPeriodStart,
         periodEnd |-> periodEnd,
         effectiveStart |-> effectiveStart,
         skipped |-> skipped,
         threw |-> threw,
         amount |-> amountOf(course, i, joinDate, currentPeriodStart, periodEnd),
         exists |-> ~threw /\ existsIn(existingPayments, studentId, course,
                                       SplitT0(toISOString(currentPeriodStart)))]

\* the locals of one iteration of the generation loop (lines 88-130).
\* threw: an iteration that is not skipped calls effectiveStart.toISOString(),
\* in the callback of some() for the first row of the student and course
\* (line 113) or else in the pushed record (line 121), and that call raises
\* RangeError on an Invalid Date; periodEnd is Invalid only if effectiveStart is.
LoopIteration(studentId, course, joinDate, existingPayments, i, currentPeriodStart) ==
    LET periodEnd == periodEndOf(course, currentPeriodStart)
        effectiveStart == effectiveStartOf(currentPeriodStart, joinDate)
        skipped == DateLE(periodEnd, effectiveStart)
        threw == ~skipped /\ effectiveStart = NaN
    IN  [i |-> i,
         currentPeriodStart |-> currentPeriodStart,
         periodEnd |-> periodEnd,
         effectiveStart |-> effectiveStart,
         skipped |-> skipped,
         threw |-> threw,
         amount |-> amountOf(course, i, joinDate, currentPeriodStart, periodEnd),
         exists |-> ~threw /\ existsIn(existingPayments, studentId, course,
                                       SplitT0(toISOString(effectiveStart)))]

RECURSIVE generationLoop(_, _, _, _, _, _)
\* lines 88-130: the iterations i, i+1, ... of the for loop, in order; an
\* iteration that raises is the last one
generationLoop(studentId, course, joinDate, existingPayments, i, currentPeriodStart) ==
    IF i < periodsToGenerate(course)
    THEN LET it == LoopIteration(studentId, course, joinDate, existingPayments,
                                 i, currentPeriodStart)
         IN  <<it>> \o (IF it.threw THEN <<>>
                         ELSE generationLoop(studentId, course, joinDate,
                                             existingPayments, i + 1, it.periodEnd))
    ELSE <<>>

\* line 116: the iteration reaches newPayments.push
Pushed(it) == ~it.skipped /\ ~it.threw /\ ~it.exists

\* variant: periodEnd is the last day of the cycle (a closed interval)
NewPayment_EndInclusive(uuid, studentId, course, it) ==
    [id |-> uuid,
     studentId |-> studentId,
     courseId |-> course.id,
     periodStart |-> SplitT0(toISOString(it.effectiveStart)),
     periodEnd |-> SplitT0(toISOString(addDays(it.periodEnd, -1))),
     amount |-> it.amount,
     status |-> "pending",
     dueDate |-> SplitT0(toISOString(it.periodEnd)),
     paidDate |-> Undefined]

\* variant: dueDate taken from the start of the period
NewPayment_DueAtStart(uuid, studentId, course, it) ==
    [id |-> uuid,
     studentId |-> studentId,
     courseId |-> course.id,
     periodStart |-> SplitT0(toISOString(it.effectiveStart)),
     periodEnd |-> SplitT0(toISOString(it.periodEnd)),
     amount |-> it.amount,
     status |-> "pending",
     dueDate |-> SplitT0(toISOString(it.effectiveStart)),
     paidDate |-> Undefined]

\* variant: periodEnd written from effectiveStart
NewPayment_EndAtStart(uuid, studentId, course, it) ==
    [id |-> uuid,
     studentId |-> studentId,
     courseId |-> course.id,
     periodStart |-> SplitT0(toISOString(it.effectiveStart)),
     periodEnd |-> SplitT0(toISOString(it.effectiveStart)),
     amount |-> it.amount,
     status |-> "pending",
     dueDate |-> SplitT0(toISOString(it.periodEnd)),
     paidDate |-> Undefined]

\* lines 117-126: the record pushed by an iteration; uuid is crypto.randomUUID()
NewPayment(uuid, studentId, course, it) ==
    [id |-> uuid,
     studentId |-> studentId,
     courseId |-> course.id,
     periodStart |-> SplitT0(toISOString(it.effectiveStart)),
     periodEnd |-> SplitT0(toISOString(it.periodEnd)),
     amount |-> it.amount,
     status |-> "pending",
     dueDate |-> SplitT0(toISOString(it.periodEnd)),
     paidDate |-> Undefined]

\* variant: cycles anchored at the student's join date
cycleStartOf_JoinAnchored(course, joinDateStr) == ParseDate(joinDateStr)

\* lines 66-69 and 71-81: cycleStart after the alignment loop
cycleStartOf(course, joinDateStr) ==
    alignCycleStart(course, ParseDate(joinDateStr), ParseDate(course.startDate))

\* the iterations of one call
loopTraceOf(studentId, course, joinDateStr, existingPayments) ==
    generationLoop(studentId, course, ParseDate(joinDateStr), existingPayments,
                   0, cycleStartOf(course, joinDateStr))

RECURSIVE newPaymentsOf_Unshift(_, _, _, _)
\* variant: newPayments.unshift instead of push
newPaymentsOf_Unshift(uuid, studentId, course, pushed) ==
    IF pushed = <<>> THEN <<>>
    ELSE newPaymentsOf_Unshift(uuid + 1, studentId, course, Tail(pushed))
            \o <<NewPayment(uuid + 1, studentId, course, Head(pushed))>>

RECURSIVE newPaymentsOf(_, _, _, _)
\* lines 116-127: the records pushed, in loop order; crypto.randomUUID() yields
\* uuid + 1, uuid + 2, ...
newPaymentsOf(uuid, studentId, course, pushed) ==
    IF pushed = <<>> THEN <<>>
    ELSE <<NewPayment(uuid + 1, studentId, course, Head(pushed))>>
            \o newPaymentsOf(uuid + 1, studentId, course, Tail(pushed))

\* variant: the records are pushed onto the array the caller passed
existingPaymentsAfter_Pushed(existingPayments, newPayments) ==
    existingPayments \o newPayments

\* the caller's array after the call: it is only read, by some() (line 110),
\* and newPayments is a fresh array (line 83)
existingPaymentsAfter(existingPayments, newPayments) == existingPayments

\* the call raised instead of returning
Threw(iterations) == \E k \in 1..Len(iterations) : iterations[k].threw

\* line 132: newPayments after the given iterations; a call that raises
\* returns nothing, which is the empty list here and Threw of its iterations
returnedAfter(uuid, studentId, course, iterations) ==
    IF Threw(iterations) THEN <<>>
    ELSE newPaymentsOf(uuid, studentId, course, SelectSeq(iterations, Pushed))

\* the value returned by one call
generatePaymentsForEnrollment(studentId, course, joinDateStr, existingPayments, uuid) ==
    returnedAfter(uuid, studentId, course,
                  loopTraceOf(studentId, course, joinDateStr, existingPayments))

\* ------------------------------------------------------------------------
\* Inputs of the generator
\* ------------------------------------------------------------------------

MaxExisting == 2

Course(startDate, fee, period) ==
    [id |-> "c1", startDate |-> startDate, fee |-> fee, period |-> period]

CourseInputs ==
    {Course(<<2024, 1, 1>>, 1000, "monthly"),
     Course(<<2024, 1, 1, TimeSuffix>>, 42, "monthly"),
     Course(<<2024, 1, 1>>, 10, "monthly"),
     Course(<<2024, 1, 31>>, 1000, "monthly"),
     Course(<<2024, 1, 1, TimeSuffix>>, 1000, "weekly"),
     Course(<<2024, 1, 31>>, 42, "weekly"),
     Course(<<2024, 1, 1>>, 1000, "yearly"),
     Course(<<2024, 2, 29>>, 1000, "yearly")}

JoinDateInputs ==
    {<<2023, 12, 20>>, <<2024, 1, 1>>, <<2024, 1, 16>>, <<2024, 2, 1>>,
     <<2024, 3, 15>>, <<2024, 3, 31>>, <<2024, 4, 2>>, <<2025, 2, 12>>}

\* a payment row as the client holds it (GET /api/data or an earlier call)
ExistingRow(id, sid, cid, ps) ==
    [id |-> id, studentId |-> sid, courseId |-> cid, periodStart |-> ps,
     periodEnd |-> ps, amount |-> 1000, status |-> "paid", dueDate |-> ps,
     paidDate |-> Undefined]

ExistingPool ==
    {ExistingRow(-1, "s1", "c1", <<2024, 2, 1, TimeSuffix>>),
     ExistingRow(-2, "s1", "c1", <<2024, 2, 1>>),
     ExistingRow(-3, "s1", "c1", <<2024, 1, 16>>),
     ExistingRow(-4, "s1", "c1", <<2024, 3, 2>>),
     ExistingRow(-5, "s1", "c1", <<2024, 1, 8>>),
     ExistingRow(-6, "s1", "c1", <<2025, 1, 1, TimeSuffix>>),
     ExistingRow(-7, "s2", "c1", <<2024, 2, 1>>),
     ExistingRow(-8, "s1", "c2", <<2024, 2, 1, TimeSuffix>>)}

RECURSIVE SetToSeq(_)
SetToSeq(S) ==
    IF S = {} THEN <<>>
    ELSE LET x == CHOOSE x \in S : \A y \in S : x.id >= y.id
         IN  <<x>> \o SetToSeq(S \ {x})

ExistingInputs ==
    {SetToSeq(S) : S \in {T \in SUBSET ExistingPool : Cardinality(T) <= MaxExisting}}

\* ------------------------------------------------------------------------
\* State
\* ------------------------------------------------------------------------

VARIABLES
    argStudentId,   \* generator call: studentId
    argCourse,      \* generator call: course
    argJoinDate,    \* generator call: joinDateStr
    argExisting,    \* generator call: existingPayments
    result,         \* the list returned by the last call
    trace,          \* the loop iterations of the last call
    callNo          \* number of calls made so far

genVars == <<argStudentId, argCourse, argJoinDate, argExisting, result, trace, callNo>>

VARIABLES
    dbPayments,     \* server: the Payment table, in insertion order
    dbEnrollments,  \* server: the Enrollment table
    data,           \* per browser: the AppData last loaded by refreshData
    uuids,          \* number of ids crypto.randomUUID() has handed out
    ops,            \* number of handler invocations so far
    staleGen        \* history: some generation read a snapshot that was out of date

appVars == <<dbPayments, dbEnrollments, data, uuids, ops, staleGen>>

VARIABLES
    pc,             \* one call, statement by statement: where control is
    whileCycleStart,   \* one call: cycleStart (lines 69-81)
    forPeriodStart,    \* one call: currentPeriodStart (lines 84-129)
    forI               \* one call: i of the for loop

runVars == <<pc, whileCycleStart, forPeriodStart, forI>>

vars == <<genVars, appVars, runVars>>

\* ------------------------------------------------------------------------
\* Inputs of the application
\* ------------------------------------------------------------------------

MaxOps == 4

Clients == {"a", "b"}

AppStudents == {"s1"}

\* data.courses: the two courses of the installation
AppCourses ==
    {[id |-> "c1", startDate |-> <<2024, 1, 1, TimeSuffix>>, fee |-> 1000,
      period |-> "monthly"],
     [id |-> "c2", startDate |-> <<2024, 1, 1, TimeSuffix>>, fee |-> 1200,
      period |-> "yearly"]}

\* the values typed into the date inputs
AppDates == {<<2024, 1, 10>>, <<2024, 1, 16>>}

\* new Date().toISOString() when a payment is marked paid (time of day left out)
NowISO == <<2024, 6, 1, TimeSuffix>>

\* ------------------------------------------------------------------------
\* Server (Express + Prisma), client handlers (App.tsx)
\* ------------------------------------------------------------------------

\* NULL in a DateTime column (no day number)
Null == -1

\* res.json of a Payment row: DateTime columns become full ISO strings
PaymentToJSON(row) ==
    [id |-> row.id, studentId |-> row.studentId, courseId |-> row.courseId,
     periodStart |-> toISOString(row.periodStart),
     periodEnd |-> toISOString(row.periodEnd),
     amount |-> row.amount, status |-> row.status,
     dueDate |-> toISOString(row.dueDate),
     paidDate |-> IF row.paidDate = Null THEN Undefined
                  ELSE toISOString(row.paidDate)]

RECURSIVE PaymentsToJSON(_)
PaymentsToJSON(rows) ==
    IF rows = <<>> THEN <<>>
    ELSE <<PaymentToJSON(Head(rows))>> \o PaymentsToJSON(Tail(rows))

\* GET /api/data as getData returns it (students' enrollments, payments)
GetData(payments, enrollments) ==
    [payments |-> PaymentsToJSON(payments), enrollments |-> enrollments]

\* the data mapping of prisma.payment.createMany in /api/enroll and /api/transfer
PaymentFromJSON(p) ==
    [id |-> p.id, studentId |-> p.studentId, courseId |-> p.courseId,
     periodStart |-> ParseDate(p.periodStart),
     periodEnd |-> ParseDate(p.periodEnd),
     amount |-> p.amount, status |-> p.status,
     dueDate |-> ParseDate(p.dueDate),
     paidDate |-> IF p.paidDate # Undefined THEN ParseDate(p.paidDate) ELSE Null]

\* variant: the server leaves out the records whose student, course and
\* periodStart are stored already (createMany with a uniqueness check)
CreateMany_SkipsStored(rows, payments) ==
    rows \o SelectSeq([k \in 1..Len(payments) |-> PaymentFromJSON(payments[k])],
                      LAMBDA r : \A k \in 1..Len(rows) :
                                    ~(/\ rows[k].studentId = r.studentId
                                      /\ rows[k].courseId = r.courseId
                                      /\ rows[k].periodStart = r.periodStart))

RECURSIVE CreateMany(_, _)
\* prisma.payment.createMany, guarded by `payments && payments.length > 0`
CreateMany(rows, payments) ==
    IF payments = <<>> THEN rows
    ELSE CreateMany(Append(rows, PaymentFromJSON(Head(payments))), Tail(payments))

\* variant: the where clause lacks status: 'pending'
DeletePending_AnyStatus(rows, studentId, courseId) ==
    SelectSeq(rows, LAMBDA r : ~(r.studentId = studentId /\ r.courseId = courseId))

\* prisma.payment.deleteMany({ where: { studentId, courseId, status: 'pending' } })
DeletePending(rows, studentId, courseId) ==
    SelectSeq(rows, LAMBDA r : ~(r.studentId = studentId /\ r.courseId = courseId
                                  /\ r.status = "pending"))

\* prisma.enrollment.deleteMany({ where: { studentId, courseId } })
DeleteEnrollment(enrollments, studentId, courseId) ==
    {e \in enrollments : ~(e.studentId = studentId /\ e.courseId = courseId)}

\* variant: the enrollment is dated by the server's clock (new Date())
CreateEnrollment_JoinsToday(enrollments, studentId, courseId, dateStr) ==
    enrollments \cup {[studentId |-> studentId, courseId |-> courseId,
                       joinDate |-> ParseDate(NowISO)]}

\* prisma.enrollment.create
CreateEnrollment(enrollments, studentId, courseId, dateStr) ==
    enrollments \cup {[studentId |-> studentId, courseId |-> courseId,
                       joinDate |-> ParseDate(dateStr)]}

\* the update with `paidDate` left out of `data` when the body carries none
UpdatePayment_KeepsPaidDate(rows, id, status, paidDate) ==
    [k \in 1..Len(rows) |->
        IF rows[k].id = id
        THEN [rows[k] EXCEPT !.status = status,
                             !.paidDate = IF paidDate # Undefined
                                          THEN ParseDate(paidDate) ELSE @]
        ELSE rows[k]]

\* prisma.payment.update({ where: { id }, data: { status, paidDate } });
\* an unknown id makes it throw, and the route answers 500
UpdatePayment(rows, id, status, paidDate) ==
    [k \in 1..Len(rows) |->
        IF rows[k].id = id
        THEN [rows[k] EXCEPT !.status = status,
                             !.paidDate = IF paidDate # Undefined
                                          THEN ParseDate(paidDate) ELSE Null]
        ELSE rows[k]]

\* s.enrollments.some(e => e.courseId === courseId) on the browser's snapshot
IsEnrolled(snapshot, studentId, courseId) ==
    \E e \in snapshot.enrollments : e.studentId = studentId /\ e.courseId = courseId

\* the snapshot is what GET /api/data would return now
IsCurrent(snapshot) == snapshot.payments = PaymentsToJSON(dbPayments)


\* ------------------------------------------------------------------------
\* The generator called on bounded inputs, then retried
\* ------------------------------------------------------------------------

AppIdle ==
    /\ dbPayments = <<>>
    /\ dbEnrollments = {}
    /\ data = [c \in Clients |-> [payments |-> <<>>, enrollments |-> {}]]
    /\ uuids = 0
    /\ ops = 0
    /\ staleGen = FALSE

\* no call is being followed statement by statement
RunIdle ==
    /\ pc = "idle"
    /\ whileCycleStart = NaN
    /\ forPeriodStart = NaN
    /\ forI = 0

InitGen ==
    /\ argStudentId = "s1"
    /\ argCourse \in CourseInputs
    /\ argJoinDate \in JoinDateInputs
    /\ argExisting \in ExistingInputs
    /\ result = <<>>
    /\ trace = <<>>
    /\ callNo = 0
    /\ AppIdle
    /\ RunIdle

\* a first call
GenCall ==
    /\ callNo = 0
    /\ result' = generatePaymentsForEnrollment(argStudentId, argCourse, argJoinDate,
                                               argExisting, 0)
    /\ trace' = loopTraceOf(argStudentId, argCourse, argJoinDate, argExisting)
    /\ argExisting' = existingPaymentsAfter(argExisting, result')
    /\ callNo' = 1
    /\ UNCHANGED <<argStudentId, argCourse, argJoinDate>>
    /\ UNCHANGED appVars
    /\ UNCHANGED runVars

\* the call repeated with existingPayments extended by the first call's output
GenRetry ==
    /\ callNo = 1
    /\ argExisting' = argExisting \o result
    /\ result' = generatePaymentsForEnrollment(argStudentId, argCourse, argJoinDate,
                                               argExisting', Len(result))
    /\ trace' = loopTraceOf(argStudentId, argCourse, argJoinDate, argExisting')
    /\ callNo' = 2
    /\ UNCHANGED <<argStudentId, argCourse, argJoinDate>>
    /\ UNCHANGED appVars
    /\ UNCHANGED runVars

NextGen == GenCall \/ GenRetry

SpecGen == InitGen /\ [][NextGen]_vars

\* ------------------------------------------------------------------------
\* The generator called on inputs outside its documented domain: a period
\* that is none of the three, a fee that is not positive, date strings that
\* do not parse
\* ------------------------------------------------------------------------

CourseAnyInputs ==
    {Course(<<2024, 1, 1>>, 1000, "quarterly"),
     Course(<<2024, 2, 29>>, 42, ""),
     Course(<<2024, 1, 1>>, 0, "monthly"),
     Course(<<2024, 1, 1, TimeSuffix>>, -42, "monthly"),
     Course(<<2024, 1, 31>>, -1000, "weekly"),
     Course(<<2024, 1, 1>>, -1000, "yearly"),
     Course(Unparseable, 1000, "monthly"),
     Course(<<>>, 1000, "weekly")}

JoinDateAnyInputs == JoinDateInputs \cup {Unparseable}

InitAny ==
    /\ argStudentId = "s1"
    /\ argCourse \in CourseAnyInputs
    /\ argJoinDate \in JoinDateAnyInputs
    /\ argExisting \in ExistingInputs
    /\ result = <<>>
    /\ trace = <<>>
    /\ callNo = 0
    /\ AppIdle
    /\ RunIdle

SpecAny == InitAny /\ [][NextGen]_vars

\* ------------------------------------------------------------------------
\* One call followed statement by statement (lines 66-132)
\* ------------------------------------------------------------------------

RunExistingInputs ==
    {<<>>, <<ExistingRow(-1, "s1", "c1", <<2024, 2, 1, TimeSuffix>>),
             ExistingRow(-3, "s1", "c1", <<2024, 1, 16>>)>>}

\* lines 66-69: the call has parsed its dates and copied courseStartDate
InitRun ==
    /\ argStudentId = "s1"
    /\ argCourse \in CourseInputs
    /\ argJoinDate \in JoinDateInputs
    /\ argExisting \in RunExistingInputs
    /\ result = <<>>
    /\ trace = <<>>
    /\ callNo = 0
    /\ AppIdle
    /\ pc = "while"
    /\ whileCycleStart = ParseDate(argCourse.startDate)
    /\ forPeriodStart = NaN
    /\ forI = 0

\* lines 71-81: an iteration of the while loop that reaches line 80
WhileIteration ==
    /\ pc = "while"
    /\ DateLE(whileCycleStart, ParseDate(argJoinDate))
    /\ ~DateLT(ParseDate(argJoinDate), nextCycleOf(argCourse, whileCycleStart))
    /\ whileCycleStart' = nextCycleOf(argCourse, whileCycleStart)
    /\ UNCHANGED <<pc, forPeriodStart, forI>>
    /\ UNCHANGED genVars
    /\ UNCHANGED appVars

\* the while loop ends, by its condition (line 71) or by break (line 78);
\* lines 83-88 follow
WhileExit ==
    /\ pc = "while"
    /\ \/ ~DateLE(whileCycleStart, ParseDate(argJoinDate))
       \/ DateLT(ParseDate(argJoinDate), nextCycleOf(argCourse, whileCycleStart))
    /\ pc' = "for"
    /\ forPeriodStart' = whileCycleStart
    /\ forI' = 0
    /\ UNCHANGED whileCycleStart
    /\ UNCHANGED genVars
    /\ UNCHANGED appVars

\* lines 88-130: one iteration of the for loop
ForIteration ==
    /\ pc = "for"
    /\ forI < periodsToGenerate(argCourse)
    /\ trace' = Append(trace, LoopIteration(argStudentId, argCourse,
                                            ParseDate(argJoinDate), argExisting,
                                            forI, forPeriodStart))
    /\ pc' = IF trace'[Len(trace')].threw THEN "threw" ELSE "for"
    /\ result' = IF Pushed(trace'[Len(trace')])
                  THEN Append(result, NewPayment(Len(result) + 1, argStudentId,
                                                 argCourse, trace'[Len(trace')]))
                  ELSE result
    /\ forPeriodStart' = trace'[Len(trace')].periodEnd
    /\ forI' = forI + 1
    /\ UNCHANGED <<argStudentId, argCourse, argJoinDate, argExisting, callNo>>
    /\ UNCHANGED whileCycleStart
    /\ UNCHANGED appVars

\* line 132
Return ==
    /\ pc = "for"
    /\ ~(forI < periodsToGenerate(argCourse))
    /\ pc' = "done"
    /\ UNCHANGED <<whileCycleStart, forPeriodStart, forI>>
    /\ UNCHANGED genVars
    /\ UNCHANGED appVars

NextRun == WhileIteration \/ WhileExit \/ ForIteration \/ Return

\* the call is synchronous and nothing preempts it: its next statement runs
SpecRun == InitRun /\ [][NextRun]_vars /\ WF_vars(NextRun)

\* ------------------------------------------------------------------------
\* The application: two browsers against one server
\* ------------------------------------------------------------------------

Init ==
    /\ argStudentId = "s1"
    /\ argCourse = CHOOSE c \in AppCourses : c.id = "c1"
    /\ argJoinDate = <<2024, 1, 1>>
    /\ argExisting = <<>>
    /\ result = <<>>
    /\ trace = <<>>
    /\ callNo = 0
    /\ AppIdle
    /\ RunIdle

\* refreshData (also the effect on mount)
RefreshData(c) ==
    /\ ~IsCurrent(data[c]) \/ data[c].enrollments # dbEnrollments
    /\ data' = [data EXCEPT ![c] = GetData(dbPayments, dbEnrollments)]
    /\ UNCHANGED <<dbPayments, dbEnrollments, uuids, ops, staleGen>>
    /\ UNCHANGED genVars
    /\ UNCHANGED runVars

\* handleEnrollStudent, POST /api/enroll, refreshData; the form offers the
\* students that the snapshot does not show enrolled in the course
EnrollStudent(c, studentId, course, joinDate) ==
    /\ ops < MaxOps
    /\ ~IsEnrolled(data[c], studentId, course.id)
    /\ dbEnrollments' = CreateEnrollment(dbEnrollments, studentId, course.id, joinDate)
    /\ dbPayments' = CreateMany(dbPayments,
                                generatePaymentsForEnrollment(studentId, course, joinDate,
                                                              data[c].payments, uuids))
    /\ uuids' = uuids + (Len(dbPayments') - Len(dbPayments))
    /\ data' = [data EXCEPT ![c] = GetData(dbPayments', dbEnrollments')]
    /\ staleGen' = (staleGen \/ ~IsCurrent(data[c]))
    /\ ops' = ops + 1
    /\ UNCHANGED genVars
    /\ UNCHANGED runVars

\* handleUnenrollStudent, POST /api/unenroll, refreshData; offered for the
\* students that the snapshot shows enrolled
UnenrollStudent(c, studentId, courseId) ==
    /\ ops < MaxOps
    /\ IsEnrolled(data[c], studentId, courseId)
    /\ dbEnrollments' = DeleteEnrollment(dbEnrollments, studentId, courseId)
    /\ dbPayments' = DeletePending(dbPayments, studentId, courseId)
    /\ data' = [data EXCEPT ![c] = GetData(dbPayments', dbEnrollments')]
    /\ ops' = ops + 1
    /\ UNCHANGED <<uuids, staleGen>>
    /\ UNCHANGED genVars
    /\ UNCHANGED runVars

\* handleTransferStudent, POST /api/transfer, refreshData
TransferStudent(c, studentId, oldCourseId, newCourse, transferDate) ==
    /\ ops < MaxOps
    /\ IsEnrolled(data[c], studentId, oldCourseId)
    /\ newCourse.id # oldCourseId
    /\ dbEnrollments' = CreateEnrollment(DeleteEnrollment(dbEnrollments, studentId,
                                                          oldCourseId),
                                         studentId, newCourse.id, transferDate)
    /\ dbPayments' = CreateMany(DeletePending(dbPayments, studentId, oldCourseId),
                                generatePaymentsForEnrollment(studentId, newCourse,
                                                              transferDate,
                                                              data[c].payments, uuids))
    /\ uuids' = uuids + (Len(dbPayments')
                            - Len(DeletePending(dbPayments, studentId, oldCourseId)))
    /\ data' = [data EXCEPT ![c] = GetData(dbPayments', dbEnrollments')]
    /\ staleGen' = (staleGen \/ ~IsCurrent(data[c]))
    /\ ops' = ops + 1
    /\ UNCHANGED genVars
    /\ UNCHANGED runVars

\* handleUpdatePaymentStatus, PUT /api/payments/:id, refreshData; the buttons
\* (paid, waived) are shown for the rows whose snapshot status is not 'paid'
UpdatePaymentStatus(c, k, status) ==
    /\ ops < MaxOps
    /\ data[c].payments[k].status # "paid"
    /\ dbPayments' = UpdatePayment(dbPayments, data[c].payments[k].id, status,
                                   IF status = "paid" THEN NowISO ELSE Undefined)
    /\ data' = [data EXCEPT ![c] = GetData(dbPayments', dbEnrollments)]
    /\ ops' = ops + 1
    /\ UNCHANGED <<dbEnrollments, uuids, staleGen>>
    /\ UNCHANGED genVars
    /\ UNCHANGED runVars

\* the rows of a snapshot that open a (student, course) pair's list: status
\* updates are tried on these
FirstRows(payments) ==
    {k \in 1..Len(payments) :
        \A j \in 1..(k - 1) : ~(payments[j].studentId = payments[k].studentId
                                 /\ payments[j].courseId = payments[k].courseId)}

Next ==
    \/ \E c \in Clients : RefreshData(c)
    \/ \E c \in Clients, s \in AppStudents, course \in AppCourses, d \in AppDates :
          EnrollStudent(c, s, course, d)
    \/ \E c \in Clients, s \in AppStudents, course \in AppCourses :
          UnenrollStudent(c, s, course.id)
    \/ \E c \in Clients, s \in AppStudents, old \in AppCourses, new \in AppCourses,
          d \in AppDates : TransferStudent(c, s, old.id, new, d)
    \/ \E c \in Clients, status \in {"paid", "waived"} :
          \E k \in FirstRows(data[c].payments) : UpdatePaymentStatus(c, k, status)

Spec == Init /\ [][Next]_vars

\* ------------------------------------------------------------------------
\* Claims about generatePaymentsForEnrollment
\* ------------------------------------------------------------------------

\* the call's joinDate and courseStartDate (lines 66-67)
JoinDay == ParseDate(argJoinDate)

StartDay == ParseDate(argCourse.startDate)

\* the calendar-date part "YYYY-MM-DD" of a date string
DateOf(str) == <<str[1], str[2], str[3]>>

\* the "YYYY-MM-DD" string of a day number
DateStr(date) == <<getFullYear(date), getMonth(date), getDate(date)>>

SameCycleKey(p, q) ==
    /\ p.studentId = q.studentId
    /\ p.courseId = q.courseId
    /\ DateOf(p.periodStart) = DateOf(q.periodStart)

\* at most one record per (studentId, courseId, periodStart date)
UniqueCycles(payments) ==
    \A a, b \in 1..Len(payments) : a # b => ~SameCycleKey(payments[a], payments[b])

\* C1: idempotence - a second call whose existingPayments is the first call's
\* input followed by its output returns the empty list.
C1_Idempotence == callNo = 2 => result = <<>>

\* a retried call whose first call did return records
C1_Witness == callNo = 2 /\ Len(argExisting) > MaxExisting + 2 /\ result = <<>>

\* C2: if existingPayments holds at most one record per (studentId, courseId,
\* periodStart date), so does existingPayments followed by the call's output.
C2_DedupInvariant ==
    (callNo = 1 /\ UniqueCycles(argExisting)) => UniqueCycles(argExisting \o result)

\* a call with two existing rows of which one suppressed a cycle
C2_Witness ==
    /\ callNo = 1
    /\ Len(argExisting) = 2
    /\ UniqueCycles(argExisting)
    /\ result # <<>>
    /\ Len(result) < periodsToGenerate(argCourse)

\* the rows of existingPayments that name the call's student and course and
\* whose periodStart has the given calendar date
Matching(date) ==
    {k \in 1..Len(argExisting) :
        /\ argExisting[k].studentId = argStudentId
        /\ argExisting[k].courseId = argCourse.id
        /\ DateOf(argExisting[k].periodStart) = date}

Generated(date) == {k \in 1..Len(result) : result[k].periodStart = date}

\* C4: a cycle of the horizon is absent from the output if and only if
\* existingPayments holds a record of the same student and course whose
\* periodStart date is the cycle's effective start date; every other cycle
\* of the horizon is generated, exactly once.
C4_ExactSuppression ==
    callNo = 1 =>
        /\ Len(trace) = periodsToGenerate(argCourse)
        /\ \A c \in 1..Len(trace) :
              /\ ~trace[c].skipped
              /\ (Generated(DateStr(trace[c].effectiveStart)) = {})
                    <=> (Matching(DateStr(trace[c].effectiveStart)) # {})
              /\ Cardinality(Generated(DateStr(trace[c].effectiveStart))) <= 1

\* one cycle suppressed while a row of another course and a row of another
\* student with the same periodStart are present
C4_Witness ==
    /\ callNo = 1
    /\ Len(result) = periodsToGenerate(argCourse) - 1
    /\ \E k \in 1..Len(argExisting) : argExisting[k].courseId # argCourse.id
    /\ \E k \in 1..Len(argExisting) :
          /\ argExisting[k].studentId = argStudentId
          /\ argExisting[k].courseId = argCourse.id

\* fee * num / den rounded to the nearest integer, a half going up
HalfUp(fee, num, den) == (2 * fee * num + den) \div (2 * den)

\* amount is an integer nearest to fee * num / den
Nearest(amount, fee, num, den) ==
    /\ 2 * (amount * den - fee * num) <= den
    /\ 2 * (fee * num - amount * den) <= den

\* the first loop iteration pro-rates: joinDate is after the aligned cycleStart
FirstIsPartial == callNo >= 1 /\ JoinDay > trace[1].currentPeriodStart

\* the spec's example call: monthly, fee 1000, start 2024-01-01, join 2024-01-16
ExampleCall ==
    /\ callNo = 1
    /\ argCourse = Course(<<2024, 1, 1>>, 1000, "monthly")
    /\ argJoinDate = <<2024, 1, 16>>
    /\ argExisting = <<>>

\* the first pro-rated candidate: its periodStart is joinDate, and it is the
\* first record of the output unless existingPayments suppresses it
FirstStartsAtJoin ==
    /\ trace[1].effectiveStart = JoinDay
    /\ ~trace[1].skipped
    /\ ~trace[1].exists =>
          /\ result[1].periodStart = DateStr(JoinDay)
          /\ result[1].periodEnd = DateStr(trace[1].periodEnd)
          /\ result[1].amount = trace[1].amount

\* C5 as claimed: the pro-rated amount of the first iteration is
\* fee * (periodEnd - joinDate) / (periodEnd - cycleStart) rounded to the
\* nearest whole unit with ties rounded up, and its periodStart is joinDate.
C5_HalfUpProRation ==
    FirstIsPartial =>
        /\ FirstStartsAtJoin
        /\ trace[1].amount = HalfUp(argCourse.fee,
                                    trace[1].periodEnd - JoinDay,
                                    trace[1].periodEnd - trace[1].currentPeriodStart)

\* C5 as amended: the pro-rated amount is a whole unit nearest to
\* fee * (periodEnd - joinDate) / (periodEnd - cycleStart) - at an exact half
\* either neighbour - its periodStart is joinDate, and the example call yields
\* 2024-01-16 to 2024-02-01 with amount 516.
C5_NearestProRation ==
    /\ FirstIsPartial =>
          /\ FirstStartsAtJoin
          /\ Nearest(trace[1].amount, argCourse.fee,
                     trace[1].periodEnd - JoinDay,
                     trace[1].periodEnd - trace[1].currentPeriodStart)
    /\ ExampleCall =>
          /\ result[1].periodStart = <<2024, 1, 16>>
          /\ result[1].periodEnd = <<2024, 2, 1>>
          /\ result[1].amount = 516

\* a pro-rated first record whose exact amount is a half: 42 * 17 / 28 = 25.5
C5_Witness ==
    /\ FirstIsPartial
    /\ argCourse.fee = 42
    /\ trace[1].periodEnd - JoinDay = 17
    /\ trace[1].periodEnd - trace[1].currentPeriodStart = 28
    /\ result # <<>>
    /\ result[1].amount = trace[1].amount

\* C6: every candidate of an iteration i >= 1 carries amount = course.fee,
\* and the example call's second record is 2024-02-01 to 2024-03-01, 1000.
C6_FullPeriodCharge ==
    /\ callNo >= 1 =>
          /\ \A c \in 2..Len(trace) : trace[c].amount = argCourse.fee
          /\ \A k \in 1..Len(result) :
                result[k].periodStart # DateStr(trace[1].effectiveStart)
                    => result[k].amount = argCourse.fee
    /\ ExampleCall =>
          /\ result[2].periodStart = <<2024, 2, 1>>
          /\ result[2].periodEnd = <<2024, 3, 1>>
          /\ result[2].amount = 1000

\* the example call, whose first record is pro-rated and whose later ones are not
C6_Witness ==
    /\ ExampleCall
    /\ Len(result) = 12
    /\ result[1].amount # 1000
    /\ result[12].amount = 1000

\* C10: in every iteration i >= 1 the nominal currentPeriodStart is >= joinDate,
\* so the candidate's periodStart is the nominal cycle start.
C10_ClampOnlyFirst ==
    callNo >= 1 =>
        \A c \in 2..Len(trace) :
            /\ trace[c].i >= 1
            /\ trace[c].currentPeriodStart >= JoinDay
            /\ trace[c].effectiveStart = trace[c].currentPeriodStart

\* a call whose first cycle is clamped to joinDate and whose later ones are not
C10_Witness ==
    /\ callNo = 1
    /\ trace[1].effectiveStart # trace[1].currentPeriodStart
    /\ trace[2].effectiveStart = trace[2].currentPeriodStart
    /\ trace[1].currentPeriodStart > StartDay

\* start advanced by n whole periods in one step
Advanced(start, period, n) ==
    IF period = "weekly" THEN addDays(start, 7 * n)
    ELSE IF period = "monthly" THEN addMonths(start, n)
    ELSE addYears(start, n)

\* start advanced by n calendar months (12 n for a yearly course), the day of
\* the month held back to the last day of a shorter month
AdvancedClamped(start, period, n) ==
    LET months == IF period = "monthly" THEN n ELSE 12 * n
        first  == MakeDate(getFullYear(start), getMonth(start) + months, 1)
        next   == MakeDate(getFullYear(start), getMonth(start) + months + 1, 1)
        day    == IF getDate(start) > next - first THEN next - first ELSE getDate(start)
    IN  IF period = "weekly" THEN addDays(start, 7 * n) ELSE first + day - 1

\* date is course.startDate advanced by k whole periods, for some k >= 0
OnPeriodGrid(date) ==
    \E n \in 0..120 :
        \/ date = Advanced(StartDay, argCourse.period, n)
        \/ date = AdvancedClamped(StartDay, argCourse.period, n)

\* C7 as claimed: every generated periodStart is course.startDate advanced by
\* k whole periods (7k days, k calendar months, k calendar years) for some
\* k >= 0, except possibly the first generated record.
C7_AlignedToStart ==
    callNo = 1 =>
        \A k \in 2..Len(result) : OnPeriodGrid(ParseDate(result[k].periodStart))

RECURSIVE BoundariesUpTo(_, _, _)
\* the boundary sequence of a course: startDate, then one period after the
\* previous boundary, as far as the day `last`
BoundariesUpTo(boundary, period, last) ==
    IF boundary > last THEN {}
    ELSE {boundary} \cup
         BoundariesUpTo(IF period = "weekly" THEN addDays(boundary, 7)
                        ELSE IF period = "monthly" THEN addMonths(boundary, 1)
                        ELSE addYears(boundary, 1),
                        period, last)

OnBoundaries(dates, boundaries) == dates \subseteq boundaries

\* C8: whatever the join date, every periodEnd and every non-first periodStart
\* of the output lies on the one boundary sequence fixed by course.startDate
\* and the period; only the first record's periodStart may be the join date.
C8_NoCycleDrift ==
    callNo = 1 =>
        OnBoundaries({ParseDate(result[k].periodEnd) : k \in 1..Len(result)}
                        \cup {ParseDate(result[k].periodStart) : k \in 2..Len(result)}
                        \cup {ParseDate(result[k].periodStart) :
                                k \in {j \in 1..Len(result) :
                                         j = 1 /\ result[j].periodStart # argJoinDate}},
                     BoundariesUpTo(StartDay, argCourse.period,
                                    trace[Len(trace)].periodEnd))

\* a join in the middle of a later cycle of a course that starts on the 31st
C8_Witness ==
    /\ callNo = 1
    /\ getDate(StartDay) = 31
    /\ argCourse.period = "monthly"
    /\ JoinDay > StartDay + 40
    /\ Len(result) = 12
    /\ result[1].periodStart = argJoinDate

\* cycleStart + period
PeriodAfter(date, period) ==
    IF period = "weekly" THEN date + 7
    ELSE IF period = "monthly" THEN MakeDate(getFullYear(date), getMonth(date) + 1, getDate(date))
    ELSE MakeDate(getFullYear(date) + 1, getMonth(date), getDate(date))

CycleContainsJoin(cycleStart, boundaries) ==
    IF JoinDay >= StartDay
    THEN /\ cycleStart \in boundaries
         /\ cycleStart <= JoinDay
         /\ JoinDay < PeriodAfter(cycleStart, argCourse.period)
    ELSE cycleStart = StartDay

\* C9: for joinDate >= course.startDate the alignment loop ends on a boundary
\* with cycleStart <= joinDate < cycleStart + period; for an earlier joinDate
\* it ends with cycleStart = course.startDate.
C9_AlignmentResult ==
    callNo = 1 =>
        CycleContainsJoin(trace[1].currentPeriodStart,
                          BoundariesUpTo(StartDay, argCourse.period, JoinDay))

\* the alignment loop advanced at least twice and stopped on the join date
C9_Witness ==
    /\ callNo = 1
    /\ trace[1].currentPeriodStart = JoinDay
    /\ JoinDay > StartDay + 60

\* a join before the course starts leaves cycleStart on startDate
C9_WitnessEarly == callNo = 1 /\ JoinDay < StartDay /\ trace[1].currentPeriodStart = StartDay

\* C11: one call returns at most 52 records for a weekly course, at most 12
\* for a monthly one and at most 5 for a yearly one, whatever the join date
\* and the existing payments.
C11_HorizonBound ==
    callNo >= 1 =>
        /\ argCourse.period = "weekly" => Len(result) <= 52
        /\ argCourse.period = "monthly" => Len(result) <= 12
        /\ argCourse.period = "yearly" => Len(result) <= 5

\* a weekly call that fills the horizon while existingPayments is not empty
C11_Witness ==
    /\ callNo = 1
    /\ argCourse.period = "weekly"
    /\ Len(result) = 52
    /\ argExisting # <<>>

\* C12: the records of the output are in strictly ascending periodStart
\* order, also when cycles in between were suppressed as duplicates.
C12_AscendingOrder ==
    callNo >= 1 =>
        \A k \in 1..(Len(result) - 1) :
            ParseDate(result[k].periodStart) < ParseDate(result[k + 1].periodStart)

\* an output with a gap: a cycle after the first one was suppressed
C12_Witness ==
    /\ callNo = 1
    /\ Len(result) >= 2
    /\ \E c \in 2..(Len(trace) - 1) : trace[c].exists
    /\ ~trace[1].exists

\* C13: every record of the output has status 'pending', dueDate equal to
\* its periodEnd, no paidDate, the call's studentId and course.id, and an id
\* that no other record of the output has.
C13_RecordFields ==
    callNo >= 1 =>
        \A k \in 1..Len(result) :
            /\ result[k].status = "pending"
            /\ result[k].dueDate = result[k].periodEnd
            /\ result[k].paidDate = Undefined
            /\ result[k].studentId = argStudentId
            /\ result[k].courseId = argCourse.id
            /\ \A j \in 1..Len(result) : j # k => result[j].id # result[k].id

\* a call that returned several records
C13_Witness == callNo = 1 /\ Len(result) >= 5 /\ result[1].dueDate # result[2].dueDate

\* C14: every record of the output has periodStart strictly before periodEnd,
\* the pro-rated first record included.
C14_PeriodNotEmpty ==
    callNo >= 1 =>
        \A k \in 1..Len(result) :
            ParseDate(result[k].periodStart) < ParseDate(result[k].periodEnd)

\* a pro-rated first record that starts on the last day of its cycle
C14_Witness ==
    /\ callNo = 1
    /\ FirstIsPartial
    /\ result # <<>>
    /\ result[1].periodStart = argJoinDate
    /\ ParseDate(result[1].periodEnd) = JoinDay + 1

\* joinDate is before course.startDate
JoinsBeforeStart == callNo >= 1 /\ JoinDay < StartDay

\* C15 as claimed: when joinDate is before course.startDate, cycleStart stays
\* course.startDate and the first cycle's effective start is clamped to
\* joinDate, which is earlier than cycleStart.
C15_EarlyJoinClamped ==
    JoinsBeforeStart =>
        /\ trace[1].currentPeriodStart = StartDay
        /\ trace[1].effectiveStart = JoinDay
        /\ trace[1].effectiveStart < trace[1].currentPeriodStart

\* C15 as amended: when joinDate is before course.startDate, cycleStart stays
\* course.startDate and the clamp does not apply: the first cycle's effective
\* start is cycleStart, its amount the full fee, and the first record of the
\* output (unless suppressed) starts on course.startDate.
C15_EarlyJoinNotClamped ==
    JoinsBeforeStart =>
        /\ trace[1].currentPeriodStart = StartDay
        /\ trace[1].effectiveStart = StartDay
        /\ trace[1].amount = argCourse.fee
        /\ ~trace[1].skipped
        /\ ~trace[1].exists =>
              /\ result[1].periodStart = DateOf(argCourse.startDate)
              /\ result[1].amount = argCourse.fee

\* an early join whose first record starts with the course
C15_Witness ==
    /\ JoinsBeforeStart
    /\ result # <<>>
    /\ result[1].periodStart = DateOf(argCourse.startDate)
    /\ ParseDate(result[1].periodStart) > JoinDay

\* C16: a call never raises: also for a course.startDate or a joinDate that
\* does not parse it returns a list.
C16_NeverRaises == callNo >= 1 => ~Threw(trace)

\* the course's period is none of weekly, monthly, yearly
UnknownPeriod == argCourse.period \notin {"weekly", "monthly", "yearly"}

\* every iteration spans one calendar year
YearlySteps(iterations) ==
    \A k \in 1..Len(iterations) :
        iterations[k].periodEnd = PeriodAfter(iterations[k].currentPeriodStart, "yearly")

\* C17: a course whose period is none of weekly, monthly, yearly is treated
\* as a yearly one: the alignment loop and the generation loop advance by one
\* calendar year, the horizon is 5 cycles, and the output is that of the same
\* call with period = yearly.
C17_UnknownPeriodIsYearly ==
    (callNo = 1 /\ UnknownPeriod) =>
        /\ Len(trace) = 5
        /\ YearlySteps(trace)
        /\ JoinDay # NaN =>
              CycleContainsJoin(trace[1].currentPeriodStart,
                                BoundariesUpTo(StartDay, "yearly", JoinDay))
        /\ result = generatePaymentsForEnrollment(argStudentId,
                                                  [argCourse EXCEPT !.period = "yearly"],
                                                  argJoinDate, argExisting, 0)

\* an unknown period whose alignment went one year past course.startDate
C17_Witness ==
    /\ callNo = 1
    /\ UnknownPeriod
    /\ Len(result) = 5
    /\ trace[1].currentPeriodStart > StartDay
    /\ JoinDay > trace[1].currentPeriodStart

\* two runs of the loop went through the same cycles with the same outcome
SameCycles(a, b) ==
    /\ Len(a) = Len(b)
    /\ \A k \in 1..Len(a) :
          /\ a[k].effectiveStart = b[k].effectiveStart
          /\ a[k].periodEnd = b[k].periodEnd
          /\ a[k].skipped = b[k].skipped
          /\ a[k].exists = b[k].exists

\* the dates of a list of records, in order
PeriodsOf(payments) ==
    [k \in 1..Len(payments) |-> <<payments[k].periodStart, payments[k].periodEnd>>]

\* the amounts that a fee yields: the fee itself, or in a pro-rated first
\* cycle a whole number nearest to fee * (periodEnd - joinDate) / (periodEnd - cycleStart)
AmountsFollowFee(iterations, fee) ==
    \A k \in 1..Len(iterations) :
        IF k = 1 /\ DateLT(iterations[1].currentPeriodStart, JoinDay)
        THEN Nearest(iterations[1].amount, fee,
                     iterations[1].periodEnd - JoinDay,
                     iterations[1].periodEnd - iterations[1].currentPeriodStart)
        ELSE iterations[k].amount = fee

\* the amounts of the records are those of the iterations that pushed them
AmountsPushed(payments, pushed) ==
    /\ Len(payments) = Len(pushed)
    /\ \A k \in 1..Len(payments) : payments[k].amount = pushed[k].amount

\* C18: a zero or negative course.fee is not rejected: the call returns the
\* cycles it returns for a positive fee, every full-period record carrying
\* amount = fee and a pro-rated first record fee * ratio rounded to a nearest
\* whole number.
C18_NonPositiveFee ==
    (callNo = 1 /\ argCourse.fee <= 0) =>
        /\ ~Threw(trace)
        /\ SameCycles(trace, loopTraceOf(argStudentId, [argCourse EXCEPT !.fee = 1000],
                                         argJoinDate, argExisting))
        /\ PeriodsOf(result)
              = PeriodsOf(generatePaymentsForEnrollment(argStudentId,
                                                        [argCourse EXCEPT !.fee = 1000],
                                                        argJoinDate, argExisting, 0))
        /\ AmountsFollowFee(trace, argCourse.fee)
        /\ AmountsPushed(result, SelectSeq(trace, Pushed))

\* a negative fee: a pro-rated negative first record, then the fee itself
C18_Witness ==
    /\ callNo = 1
    /\ argCourse.fee < 0
    /\ DateLT(trace[1].currentPeriodStart, JoinDay)
    /\ Len(result) >= 2
    /\ result[1].amount < 0
    /\ result[1].amount > argCourse.fee
    /\ result[2].amount = argCourse.fee

\* a list of records without their ids
WithoutIds(payments) ==
    [k \in 1..Len(payments) |-> [payments[k] EXCEPT !.id = 0]]

Horizon ==
    IF argCourse.period = "weekly" THEN 52
    ELSE IF argCourse.period = "monthly" THEN 12 ELSE 5

\* C20: a call on valid dates completes and returns a finite list: each
\* iteration of the alignment loop moves cycleStart strictly forward and is
\* taken only while the next boundary does not exceed joinDate, the loop is
\* left as soon as it does, and the generation loop runs exactly the horizon
\* number of iterations.
C20_Termination ==
    /\ <>(pc = "done")
    /\ [][(pc = "while" /\ pc' = "while") =>
              /\ whileCycleStart' > whileCycleStart
              /\ whileCycleStart' = PeriodAfter(whileCycleStart, argCourse.period)
              /\ whileCycleStart' <= JoinDay]_vars
    /\ [][(pc = "while" /\ pc' = "for") =>
              \/ whileCycleStart > JoinDay
              \/ PeriodAfter(whileCycleStart, argCourse.period) > JoinDay]_vars
    /\ [](pc = "done" =>
              /\ forI = Horizon
              /\ Len(trace) = Horizon
              /\ Len(result) <= Horizon)

\* a weekly call that returned after more than forty alignment iterations
C20_Witness ==
    /\ pc = "done"
    /\ forI = 52
    /\ whileCycleStart > StartDay + 300
    /\ Len(result) = 52

\* the join date is a cycle boundary: course.startDate advanced by k whole
\* periods for some k >= 0
JoinsOnBoundary == callNo = 1 /\ OnPeriodGrid(JoinDay)

\* the first cycle of the call starts on the join date, runs one whole period
\* and carries the full fee; unless suppressed it is the first record returned
FirstCycleFromJoin ==
    /\ trace[1].currentPeriodStart = JoinDay
    /\ trace[1].effectiveStart = JoinDay
    /\ trace[1].periodEnd = Advanced(JoinDay, argCourse.period, 1)
    /\ trace[1].amount = argCourse.fee
    /\ Pushed(trace[1]) =>
          /\ result[1].periodStart = DateStr(JoinDay)
          /\ result[1].periodEnd = DateStr(Advanced(JoinDay, argCourse.period, 1))
          /\ result[1].amount = argCourse.fee

\* C22: when joinDate equals a cycle boundary of the course (course.startDate
\* advanced by k >= 0 whole periods), alignment yields cycleStart = joinDate and
\* the first record has periodStart = joinDate, periodEnd = joinDate + one
\* period and amount = the full fee.
C22_JoinOnBoundary == JoinsOnBoundary => FirstCycleFromJoin

\* the same for the join dates that the alignment loop itself passes through
\* (startDate, then one period after the previous boundary)
C22_JoinOnIteratedBoundary ==
    (callNo = 1 /\ JoinDay \in BoundariesUpTo(StartDay, argCourse.period, JoinDay))
        => FirstCycleFromJoin

\* C23: on valid dates the skip branch (effective start >= periodEnd) is never
\* taken, and with an empty existingPayments list the call returns exactly the
\* horizon number of records (52 weekly, 12 monthly, 5 yearly), whether
\* joinDate is before, equal to or after course.startDate.
C23_SkipNeverTaken ==
    callNo >= 1 =>
        /\ \A k \in 1..Len(trace) : ~trace[k].skipped
        /\ (callNo = 1 /\ argExisting = <<>>) => Len(result) = Horizon

\* a weekly course joined several cycles after its start, nothing existing
C23_Witness ==
    /\ callNo = 1
    /\ argExisting = <<>>
    /\ argCourse.period = "weekly"
    /\ JoinDay > StartDay + 60
    /\ Len(result) = 52

\* a monthly course joined before its start, nothing existing
C23_WitnessBefore ==
    /\ callNo = 1
    /\ argExisting = <<>>
    /\ argCourse.period = "monthly"
    /\ JoinDay < StartDay
    /\ Len(result) = 12

\* a yearly course joined on its start date, nothing existing
C23_WitnessEqual ==
    /\ callNo = 1
    /\ argExisting = <<>>
    /\ argCourse.period = "yearly"
    /\ JoinDay = StartDay
    /\ Len(result) = 5

\* C24: within one call each cycle's periodEnd is the next cycle's nominal
\* start, and with an empty existingPayments list the returned records tile
\* the interval from the first periodStart to the last periodEnd without gap
\* or overlap: record n's periodEnd is record n+1's periodStart.
C24_ContiguousCycles ==
    callNo = 1 =>
        /\ \A k \in 1..(Len(trace) - 1) :
              trace[k].periodEnd = trace[k + 1].currentPeriodStart
        /\ argExisting = <<>> =>
              \A n \in 1..(Len(result) - 1) :
                  result[n].periodEnd = result[n + 1].periodStart

\* a full horizon returned for a course that starts on the 31st, joined in
\* the middle of a cycle
C24_Witness ==
    /\ callNo = 1
    /\ argExisting = <<>>
    /\ getDate(StartDay) = 31
    /\ argCourse.period = "monthly"
    /\ Len(result) = 12
    /\ result[1].periodStart = argJoinDate
    /\ result[1].periodEnd = result[2].periodStart
    /\ result[11].periodEnd = result[12].periodStart

\* C25 as claimed: for a course with integer fee > 0 every returned record has
\* 0 < amount <= fee; the pro-rated first record never carries a zero amount.
C25_AmountPositive ==
    (callNo >= 1 /\ argCourse.fee > 0) =>
        \A k \in 1..Len(result) :
            0 < result[k].amount /\ result[k].amount <= argCourse.fee

\* C25, amended: for a course with integer fee > 0 every returned record has
\* 0 <= amount <= fee; a record of a full cycle carries the fee, and the
\* pro-rated first record carries zero only when fee * ratio is at most 1/2.
C25_AmountBounds ==
    (callNo >= 1 /\ argCourse.fee > 0) =>
        /\ \A k \in 1..Len(result) :
              0 <= result[k].amount /\ result[k].amount <= argCourse.fee
        /\ \A k \in 1..Len(trace) :
              IF k = 1 /\ trace[k].currentPeriodStart < JoinDay
              THEN trace[k].amount = 0 =>
                     2 * argCourse.fee * (trace[k].periodEnd - JoinDay)
                        <= trace[k].periodEnd - trace[k].currentPeriodStart
              ELSE trace[k].amount = argCourse.fee

\* a join on the last day of a 31-day cycle of a course with fee 10: the first
\* record is pro-rated to round(10 / 31) = 0
C25_Witness ==
    /\ callNo = 1
    /\ argCourse.fee = 10
    /\ Len(result) = 12
    /\ result[1].periodStart = argJoinDate
    /\ trace[1].periodEnd - JoinDay = 1
    /\ result[1].amount = 0
    /\ result[2].amount = 10

\* ------------------------------------------------------------------------
\* Claims about enrollment against the payment store
\* ------------------------------------------------------------------------

\* two rows of one (student, course) pair whose periods [periodStart, periodEnd)
\* overlap
ChargedTwice(rows) ==
    \E a, b \in 1..Len(rows) :
        /\ a # b
        /\ rows[a].studentId = rows[b].studentId
        /\ rows[a].courseId = rows[b].courseId
        /\ rows[a].periodStart < rows[b].periodEnd
        /\ rows[b].periodStart < rows[a].periodEnd

\* no (student, course) pair has two Enrollment rows
EnrolledOnce ==
    \A e, f \in dbEnrollments :
        (e.studentId = f.studentId /\ e.courseId = f.courseId) => e = f

\* C3: whatever the sequence of enroll, status-update, unenroll, transfer and
\* re-enroll operations, as long as each generation reads the current payment
\* store, no two payment rows of one student/course pair have overlapping
\* periods.  Stated for the states in which no pair is enrolled twice, so that
\* a refutation does not rest on a second Enrollment row being accepted.
C3_NoDoubleCharge == (~staleGen /\ EnrolledOnce) => ~ChargedTwice(dbPayments)

\* ------------------------------------------------------------------------
\* Claims about the payment store
\* ------------------------------------------------------------------------

\* C21: paidDate is set only by a status update to 'paid': generated payments
\* are stored without one, an update to 'paid' stores one, an update to any
\* other status stores NULL; so in every state of the payment store a row has
\* a paidDate exactly when its status is 'paid', and in particular
\* paidDate # NULL implies status = 'paid'.
C21_PaidDateOnlyWhenPaid ==
    \A k \in 1..Len(dbPayments) :
        /\ dbPayments[k].paidDate # Null => dbPayments[k].status = "paid"
        /\ dbPayments[k].status = "paid" => dbPayments[k].paidDate = ParseDate(NowISO)
        /\ dbPayments[k].status = "pending" => dbPayments[k].paidDate = Null

\* a waived row, a paid row and a pending row in the store together
C21_Witness ==
    /\ \E k \in 1..Len(dbPayments) :
          dbPayments[k].status = "waived" /\ dbPayments[k].paidDate = Null
    /\ \E k \in 1..Len(dbPayments) :
          dbPayments[k].status = "paid" /\ dbPayments[k].paidDate # Null
    /\ \E k \in 1..Len(dbPayments) : dbPayments[k].status = "pending"

\* the ids of the stored payments
RowIds(rows) == {rows[k].id : k \in 1..Len(rows)}

\* the stored payment with a given id (ids are unique)
RowOf(rows, id) == rows[CHOOSE k \in 1..Len(rows) : rows[k].id = id]

\* the pending payments of a (student, course) pair
PendingOf(rows, studentId, courseId) ==
    {rows[k].id : k \in {j \in 1..Len(rows) : /\ rows[j].studentId = studentId
                                                /\ rows[j].courseId = courseId
                                                /\ rows[j].status = "pending"}}

\* after the step the store holds the rows of `kept`, unchanged and in their
\* old order, and then `added` new rows
RowsKept(kept, added) ==
    /\ Len(dbPayments') = Cardinality(kept) + added
    /\ \A k \in 1..Cardinality(kept) :
          /\ dbPayments'[k].id \in kept
          /\ dbPayments'[k] = RowOf(dbPayments, dbPayments'[k].id)
    /\ \A j, k \in 1..Cardinality(kept) :
          (j < k) => \E a, b \in 1..Len(dbPayments) :
                        /\ a < b
                        /\ dbPayments[a].id = dbPayments'[j].id
                        /\ dbPayments[b].id = dbPayments'[k].id

C26_WitnessOtherCourse ==
    /\ \A e \in dbEnrollments : e.courseId = "c2"
    /\ dbEnrollments # {}
    /\ \E k \in 1..Len(dbPayments) :
          dbPayments[k].courseId = "c1" /\ dbPayments[k].status = "paid"
    /\ PendingOf(dbPayments, "s1", "c1") = {}
    /\ PendingOf(dbPayments, "s1", "c2") # {}
    /\ ops = 4

\* the rows from position `first` on are the records of `payments`, in order:
\* same id, student, course, amount, status and calendar dates
StoredAs(payments, first) ==
    \A k \in 1..Len(payments) :
        LET row == dbPayments'[first + k - 1]
        IN  /\ row.id = payments[k].id
            /\ row.studentId = payments[k].studentId
            /\ row.courseId = payments[k].courseId
            /\ row.amount = payments[k].amount
            /\ row.status = payments[k].status
            /\ DateStr(row.periodStart) = DateOf(payments[k].periodStart)
            /\ DateStr(row.periodEnd) = DateOf(payments[k].periodEnd)
            /\ DateStr(row.dueDate) = DateOf(payments[k].dueDate)
            /\ row.paidDate = Null

\* what a transfer of s from course old to course new with date d leaves,
\* newPayments being the list generated for (s, new) from d
Transferred(s, old, new, d, newPayments) ==
    /\ \A e \in dbEnrollments' : ~(e.studentId = s /\ e.courseId = old)
    /\ \E e \in dbEnrollments' :
          e.studentId = s /\ e.courseId = new.id /\ DateStr(e.joinDate) = d
    /\ PendingOf(dbPayments', s, old) = {}
    /\ RowsKept(RowIds(dbPayments) \ PendingOf(dbPayments, s, old), Len(newPayments))
    /\ StoredAs(newPayments, Len(dbPayments') - Len(newPayments) + 1)
    /\ \A k \in 1..Len(newPayments) :
          newPayments[k].studentId = s /\ newPayments[k].courseId = new.id

StoredTwice(rows) ==
    \E a, b \in 1..Len(rows) :
        /\ a # b
        /\ rows[a].studentId = rows[b].studentId
        /\ rows[a].courseId = rows[b].courseId
        /\ rows[a].periodStart = rows[b].periodStart

\* some browser's enroll request for a pair that has no Enrollment row in the
\* store (no second row for the pair is created by the step)
EnrollsAnew ==
    \E c \in Clients, s \in AppStudents, course \in AppCourses, d \in AppDates :
        /\ EnrollStudent(c, s, course, d)
        /\ \A e \in dbEnrollments : ~(e.studentId = s /\ e.courseId = course.id)

\* C29: when two browsers enroll the same student in the same course, each
\* generating from the snapshot it last loaded and the server inserting what it
\* receives, the store never comes to hold two payments with the same
\* (studentId, courseId, periodStart date).  Stated for the enroll requests
\* that add the pair's only Enrollment row, so that a refutation does not rest
\* on a second Enrollment row being accepted.
C29_NoDuplicateUnderInterleaving ==
    [][(EnrollsAnew /\ ~StoredTwice(dbPayments)) => ~StoredTwice(dbPayments')]_vars

\* every stored payment is pending, paid or waived: 'overdue' is never stored
NeverStoredOverdue ==
    \A k \in 1..Len(dbPayments) : dbPayments[k].status \in {"pending", "paid", "waived"}

\* a step leaves every payment that is stored as paid in the store and paid
PaidIsFinal ==
    \A k \in 1..Len(dbPayments) :
        dbPayments[k].status = "paid" =>
            \E j \in 1..Len(dbPayments') :
                dbPayments'[j].id = dbPayments[k].id /\ dbPayments'[j].status = "paid"

\* C30: payments are created pending and the application only ever sets
\* 'paid' or 'waived', offered while the payment is not paid; hence no stored
\* payment ever has status 'overdue', and a payment that is 'paid' never
\* changes status again.
C30_StatusLifecycle == []NeverStoredOverdue /\ [][PaidIsFinal]_vars

====
